---- MODULE Spec2Model ----
(***************************************************************************)
(* Model of the crawler of src/src/generators/prd.ts (scrapeLovableApp,    *)
(* scrapePage, discoverRoutes, navigateWithRetry), of findChromePath and   *)
(* the generate command of the same file, of JiraClient                    *)
(* (src/unnamed/part_002) and of writeGeneratedProject                     *)
(* (src/src/generators/code.ts).                                           *)
(*                                                                         *)
(* A URL is the sequence of its lexical pieces, e.g.                       *)
(*   "https://a:8/p#f"  is  <<"https://", "a", ":8", "/p", "#f">>          *)
(* so that String.startsWith is the prefix test on sequences and           *)
(* String.includes("#") is the search for a fragment piece.  A rendered    *)
(* document is the sequence, in document order, of the resolved href of    *)
(* its a[href] elements.                                                   *)
(***************************************************************************)
EXTENDS Integers, Sequences, FiniteSets, TLC

VARIABLES
    entryUrl,     \* the url argument of scrapeLovableApp
    pc,           \* position of scrapeLovableApp / scrapePage
    browser,      \* "none" | "open" | "closed" (browser.close() was called)
    currentUrl,   \* page.url()
    document,     \* the rendered document of the page (its a[href] list)
    entryDoc,     \* the document the site serves for the entry URL
    subDoc,       \* the document the site serves for every other URL
    uniqueRoutes, \* the frontier
    idx,          \* 1-based position of the for-of loop over uniqueRoutes
    pages,        \* the pages array being filled
    navigation,   \* result of extractNavigation (the page it ran against)
    retval,       \* the object built by the return statement
    pending,      \* "none" | "raise": an exception is propagating
    outcome,      \* "none" | "returned" | "raised": how the call ended
    result,       \* what the caller of scrapeLovableApp receives
    navpc,        \* position of navigateWithRetry
    navUrl,       \* its url argument
    attempt,      \* its loop counter
    navLog,       \* the page.goto calls of the current call and their outcome
    evalIn,       \* the page state a page.evaluate callback runs against
    evalOut,      \* what that callback returned
    env,          \* process.env.CHROME_PATH
    disk,         \* the install paths at which an executable exists
    chromePath,   \* what findChromePath returned
    opts,         \* the options of the generate command
    config,       \* loadConfig(): whether the Jira credentials are complete
    gpc,          \* position of the generate command
    genLog,       \* the stages entered, the calls each awaited, how it ended
    exitCode,     \* Running, or the exit code of the process
    epics,        \* the argument of JiraClient.createAllFromEpics
    jpc,          \* its position
    frame,        \* its loop positions and the locals epicIssue, storyIssue
    fieldIds,     \* epicNameFieldId and storyPointsFieldId, once discovered
    jira,         \* the issues the Jira site holds, in order of creation
    jresult,      \* the JiraCreateResponse being filled
    filesJson,    \* the first argument of writeGeneratedProject
    codeDir,      \* the files below the code directory: path |-> content
    project       \* what writeGeneratedProject returned

vars == <<entryUrl, pc, browser, currentUrl, document, entryDoc, subDoc,
          uniqueRoutes, idx, pages, navigation, retval, pending, outcome,
          result, navpc, navUrl, attempt, navLog, evalIn, evalOut,
          env, disk, chromePath, opts, config, gpc, genLog, exitCode,
          epics, jpc, frame, fieldIds, jira, jresult,
          filesJson, codeDir, project>>

crawlVars == <<uniqueRoutes, idx, pages, navigation, retval>>
navVars == <<navpc, navUrl, attempt, navLog>>
pageVars == <<currentUrl, document, entryDoc>>
evalVars == <<evalIn, evalOut>>
chromeVars == <<env, disk, chromePath>>
genVars == <<opts, config, gpc, genLog, exitCode>>
jiraVars == <<epics, jpc, frame, fieldIds, jira, jresult>>
codeVars == <<filesJson, codeDir, project>>
cliVars == <<chromeVars, genVars, jiraVars, codeVars>>
scraperVars == <<entryUrl, pc, browser, pageVars, subDoc, crawlVars, pending,
                 outcome, result, navVars>>

\* a result that is not there yet
NoResult == [none |-> TRUE]

\* the parts of the command line tool that are not running
ChromeIdle == env = NoResult /\ disk = {} /\ chromePath = NoResult
Running == -1
GenIdle ==
    /\ opts = NoResult
    /\ config = NoResult
    /\ gpc = "idle"
    /\ genLog = <<>>
    /\ exitCode = Running
\* epicNameFieldId = null, storyPointsFieldId = null; initialize() not done
Undiscovered == [discovered |-> FALSE, ids |-> {}]
JiraIdle ==
    /\ epics = <<>>
    /\ jpc = "idle"
    /\ frame = NoResult
    /\ fieldIds = Undiscovered
    /\ jira = <<>>
    /\ jresult = NoResult
CodeIdle == filesJson = NoResult /\ codeDir = <<>> /\ project = NoResult
CliIdle == ChromeIdle /\ GenIdle /\ JiraIdle /\ CodeIdle

(***************************************************************************)
(* Constants of the program and bounds of the model                        *)
(***************************************************************************)
NAV_RETRIES == 2

\* number of a[href] elements of the entry document
MaxLinks == 3

(***************************************************************************)
(* URLs                                                                    *)
(***************************************************************************)
SchemeTok == {"https://"}
HostTok == {"a", "b", ".b"}
DefaultPort == ":443"
PortTok == {":443", ":8"}
FragTok == {"#f"}

Entry == <<"https://", "a", "/">>
EntryWithPort == <<"https://", "a", ":443", "/">>
PageP == <<"https://", "a", "/p">>
PageQ == <<"https://", "a", "/q">>
PageR == <<"https://", "a", "/r">>
PagePFrag == <<"https://", "a", "/p", "#f">>
OtherHost == <<"https://", "b", "/">>
LongerHost == <<"https://", "a", ".b", "/">>
OtherPort == <<"https://", "a", ":8", "/">>

\* what the caller may pass as url
EntryUrls == {Entry, EntryWithPort}

\* the resolved hrefs an entry document may hold
Hrefs == {Entry, PageP, PageQ, PagePFrag, OtherHost, LongerHost, OtherPort}

SeqsUpTo(S, n) == UNION {[1..k -> S] : k \in 0..n}

Docs == SeqsUpTo(Hrefs, MaxLinks)

\* documents of the pages behind the entry page
SubDocs == {<<>>, <<Entry, PageR>>, <<PageP, PageR, PagePFrag, PageP>>}

NotLoaded == <<"about:blank">>

StartsWith(s, p) == Len(p) <= Len(s) /\ SubSeq(s, 1, Len(p)) = p

HasFragment(s) == \E i \in 1..Len(s) : s[i] \in FragTok

\* new URL(u).origin: scheme, host and the port unless it is the default one
Origin(u) ==
    SelectSeq(u, LAMBDA t : t \in SchemeTok \cup HostTok \cup (PortTok \ {DefaultPort}))

\* the serialisation the browser reports for a loaded URL (default port dropped)
Normalize(u) == SelectSeq(u, LAMBDA t : t # DefaultPort)

\* scheme, host and port agree
SameOrigin(u, v) == Origin(u) = Origin(v)

(***************************************************************************)
(* [...new Set(s)]: first occurrences, in order                            *)
(***************************************************************************)
RECURSIVE Dedupe(_)
Dedupe(s) ==
    IF s = <<>> THEN <<>>
    ELSE LET init == Dedupe(SubSeq(s, 1, Len(s) - 1))
             last == s[Len(s)]
         IN  IF \E i \in 1..Len(init) : init[i] = last THEN init
             ELSE Append(init, last)

\* the filter of the in-page loop of discoverRoutes
AdmitHrefSameOrigin(href, orig) == Origin(href) = orig /\ ~HasFragment(href)
AdmitHref(href, orig) == StartsWith(href, orig) /\ ~HasFragment(href)

discoverRoutesNoSet(doc, baseUrl) ==
    SelectSeq(doc, LAMBDA href : AdmitHref(href, Origin(baseUrl)))
discoverRoutes(doc, baseUrl) ==
    Dedupe(SelectSeq(doc, LAMBDA href : AdmitHref(href, Origin(baseUrl))))

\* const uniqueRoutes = [...new Set([url, ...routes])]
FrontierEntryLast(url, routes) == Dedupe(routes \o <<url>>)
Frontier(url, routes) == Dedupe(<<url>> \o routes)

(***************************************************************************)
(* The page                                                                *)
(***************************************************************************)
LoadOutcomes == {"ok", "timeout", "error"}

IsEntryPage(u) == Normalize(u) = Normalize(entryUrl)

\* a page.goto(u) that completed: the page shows the document the site serves
\* for u.  The entry document is fixed by the first response for it.
PageLoaded(u) ==
    /\ currentUrl' = Normalize(u)
    /\ IF IsEntryPage(u)
       THEN IF entryDoc = NotLoaded
            THEN \E d \in Docs : entryDoc' = d /\ document' = d
            ELSE document' = entryDoc /\ UNCHANGED entryDoc
       ELSE document' = subDoc /\ UNCHANGED entryDoc

(***************************************************************************)
(* navigateWithRetry                                                       *)
(***************************************************************************)
\* const isTimeout = err instanceof Error && err.message.includes("timeout")
IsTimeout(o) == o = "timeout"

\* if (!isTimeout || attempt === NAV_RETRIES) throw err
ShouldThrowNoBudget(isTimeout, att) == ~isTimeout
ShouldThrowOnlyAtBudget(isTimeout, att) == att = NAV_RETRIES
ShouldThrowAlways(isTimeout, att) == TRUE
ShouldThrow(isTimeout, att) == ~isTimeout \/ att = NAV_RETRIES

\* attempt++ of the for loop
NextAttemptStuck(att) == att
NextAttempt(att) == att + 1

Goto(policy, o) == [waitUntil |-> policy, outcome |-> o]

\* a call navigateWithRetry(page, u) enters the loop with attempt = 0
NavCall(u) ==
    /\ navpc' = "strict"
    /\ navUrl' = u
    /\ attempt' = 0
    /\ navLog' = <<>>

\* page.goto(url, {waitUntil: "networkidle2"}) and the outer catch
NavStrict ==
    /\ navpc = "strict"
    /\ \E o \in LoadOutcomes :
         /\ navLog' = Append(navLog, Goto("networkidle2", o))
         /\ IF o = "ok"
            THEN PageLoaded(navUrl) /\ navpc' = "returned"
            ELSE /\ UNCHANGED pageVars
                 /\ navpc' = IF ShouldThrow(IsTimeout(o), attempt)
                             THEN "raised" ELSE "lenient"
    /\ UNCHANGED <<cliVars, evalVars, entryUrl, pc, browser, subDoc, crawlVars, pending, outcome,
                   result, navUrl, attempt>>

\* page.goto(url, {waitUntil: "domcontentloaded"}) and the inner catch, which
\* lets the for loop go on: attempt++, then the loop test
NavLenient ==
    /\ navpc = "lenient"
    /\ \E o \in LoadOutcomes :
         /\ navLog' = Append(navLog, Goto("domcontentloaded", o))
         /\ IF o = "ok"
            THEN PageLoaded(navUrl) /\ navpc' = "hydrate" /\ UNCHANGED attempt
            ELSE /\ UNCHANGED pageVars
                 /\ attempt' = NextAttempt(attempt)
                 /\ navpc' = IF NextAttempt(attempt) <= NAV_RETRIES
                             THEN "strict" ELSE "returned"
    /\ UNCHANGED <<cliVars, evalVars, entryUrl, pc, browser, subDoc, crawlVars, pending, outcome,
                   result, navUrl>>

\* await delay(PAGE_LOAD_WAIT_MS); return
NavHydrate ==
    /\ navpc = "hydrate"
    /\ navpc' = "returned"
    /\ UNCHANGED <<cliVars, evalVars, entryUrl, pc, browser, pageVars, subDoc, crawlVars, pending,
                   outcome, result, navUrl, attempt, navLog>>

\* the caller goes on after the call returned
NavForget ==
    /\ navpc' = "idle"
    /\ navUrl' = NotLoaded
    /\ attempt' = 0
    /\ navLog' = <<>>

(***************************************************************************)
(* scrapeLovableApp and scrapePage                                         *)
(***************************************************************************)

\* an awaited call inside the try block rejects: control goes to the finally
ThrowPastFinally ==
    /\ pc' = "done"
    /\ pending' = "raise"
    /\ outcome' = "raised"
    /\ UNCHANGED <<browser, result>>
Throw ==
    /\ pc' = "finally"
    /\ pending' = "raise"
    /\ UNCHANGED <<browser, outcome, result>>

\* const browser = await puppeteer.launch(...), before the try block
Launch ==
    /\ pc = "launch"
    /\ \/ /\ browser' = "open"
          /\ pc' = "newPage"
          /\ UNCHANGED <<pending, outcome>>
       \/ /\ pc' = "done"
          /\ pending' = "raise"
          /\ outcome' = "raised"
          /\ UNCHANGED browser
    /\ UNCHANGED <<cliVars, evalVars, entryUrl, pageVars, subDoc, crawlVars, result, navVars>>

\* const page = await browser.newPage()
NewPage ==
    /\ pc = "newPage"
    /\ \/ pc' = "setViewport" /\ UNCHANGED <<browser, pending, outcome, result>>
       \/ Throw
    /\ UNCHANGED <<cliVars, evalVars, entryUrl, pageVars, subDoc, crawlVars, navVars>>

\* await page.setViewport(...)
SetViewport ==
    /\ pc = "setViewport"
    /\ \/ pc' = "navigate" /\ UNCHANGED <<browser, pending, outcome, result>>
       \/ Throw
    /\ UNCHANGED <<cliVars, evalVars, entryUrl, pageVars, subDoc, crawlVars, navVars>>

\* await navigateWithRetry(page, url): the call
EntryNavigate ==
    /\ pc = "navigate"
    /\ NavCall(entryUrl)
    /\ pc' = "navEntry"
    /\ UNCHANGED <<cliVars, evalVars, entryUrl, browser, pageVars, subDoc, crawlVars, pending,
                   outcome, result>>

\* await navigateWithRetry(page, url): the call returned or raised
EntryNavigated ==
    /\ pc = "navEntry"
    /\ \/ /\ navpc = "returned"
          /\ NavForget
          /\ pc' = "delayEntry"
          /\ UNCHANGED <<browser, pending, outcome, result>>
       \/ /\ navpc = "raised"
          /\ Throw
          /\ UNCHANGED navVars
    /\ UNCHANGED <<cliVars, evalVars, entryUrl, pageVars, subDoc, crawlVars>>

\* await delay(PAGE_LOAD_WAIT_MS)
EntryDelay ==
    /\ pc = "delayEntry"
    /\ pc' = "discover"
    /\ UNCHANGED <<cliVars, evalVars, entryUrl, browser, pageVars, subDoc, crawlVars, pending,
                   outcome, result, navVars>>

\* const routes = await discoverRoutes(page, url); uniqueRoutes; pages = []
DiscoverEntry ==
    /\ pc = "discover"
    /\ \/ /\ uniqueRoutes' = Frontier(entryUrl, discoverRoutes(document, entryUrl))
          /\ pages' = <<>>
          /\ idx' = 1
          /\ pc' = "loop"
          /\ UNCHANGED <<browser, pending, outcome, result>>
       \/ Throw /\ UNCHANGED <<uniqueRoutes, pages, idx>>
    /\ UNCHANGED <<cliVars, evalVars, entryUrl, pageVars, subDoc, navigation, retval, navVars>>

LoopTestSkipsLast ==
    /\ pc = "loop"
    /\ pc' = IF idx < Len(uniqueRoutes) THEN "scrapePage" ELSE "extractNavigation"
    /\ UNCHANGED <<cliVars, evalVars, entryUrl, browser, pageVars, subDoc, crawlVars, pending,
                   outcome, result, navVars>>
\* for (const route of uniqueRoutes): the loop test and the call of scrapePage
LoopTest ==
    /\ pc = "loop"
    /\ pc' = IF idx <= Len(uniqueRoutes) THEN "scrapePage" ELSE "extractNavigation"
    /\ UNCHANGED <<cliVars, evalVars, entryUrl, browser, pageVars, subDoc, crawlVars, pending,
                   outcome, result, navVars>>

route == uniqueRoutes[idx]

ScrapeCheckUrlAlways ==
    /\ pc = "scrapePage"
    /\ NavCall(route) /\ pc' = "navPage"
    /\ UNCHANGED <<cliVars, evalVars, entryUrl, browser, pageVars, subDoc, crawlVars, pending,
                   outcome, result>>
\* if (page.url() !== url) await navigateWithRetry(page, url)
ScrapeCheckUrl ==
    /\ pc = "scrapePage"
    /\ IF currentUrl # route
       THEN NavCall(route) /\ pc' = "navPage"
       ELSE pc' = "title" /\ UNCHANGED navVars
    /\ UNCHANGED <<cliVars, evalVars, entryUrl, browser, pageVars, subDoc, crawlVars, pending,
                   outcome, result>>

ScrapeNavigated ==
    /\ pc = "navPage"
    /\ \/ /\ navpc = "returned"
          /\ NavForget
          /\ pc' = "delayPage"
          /\ UNCHANGED <<browser, pending, outcome, result>>
       \/ /\ navpc = "raised"
          /\ Throw
          /\ UNCHANGED navVars
    /\ UNCHANGED <<cliVars, evalVars, entryUrl, pageVars, subDoc, crawlVars>>

\* await delay(NAVIGATION_WAIT_MS)
ScrapeDelay ==
    /\ pc = "delayPage"
    /\ pc' = "title"
    /\ UNCHANGED <<cliVars, evalVars, entryUrl, browser, pageVars, subDoc, crawlVars, pending,
                   outcome, result, navVars>>

\* one awaited read of the page inside scrapePage
ScrapeStep(from, to) ==
    /\ pc = from
    /\ \/ pc' = to /\ UNCHANGED <<browser, pending, outcome, result>>
       \/ Throw
    /\ UNCHANGED <<cliVars, evalVars, entryUrl, pageVars, subDoc, crawlVars, navVars>>

ScrapeTitle == ScrapeStep("title", "content")
ScrapeContent == ScrapeStep("content", "screenshot")
ScrapeScreenshot == ScrapeStep("screenshot", "components")
ScrapeComponents == ScrapeStep("components", "textContent")
ScrapeTextContentThenNext ==
    /\ pc = "textContent"
    /\ pc' = "loop"
    /\ idx' = idx + 1
    /\ UNCHANGED <<cliVars, evalVars, entryUrl, browser, pageVars, subDoc, uniqueRoutes, pages,
                   navigation, retval, pending, outcome, result, navVars>>
ScrapeTextContent == ScrapeStep("textContent", "routes")

\* the object scrapePage returns
SnapshotOfLoadedUrl(url) ==
    [url |-> currentUrl, html |-> document, routes |-> discoverRoutes(document, url)]
Snapshot(url) ==
    [url |-> url, html |-> document, routes |-> discoverRoutes(document, url)]

ScrapeRoutesFeedsFrontier ==
    /\ pc = "routes"
    /\ pages' = Append(pages, Snapshot(uniqueRoutes[idx]))
    /\ uniqueRoutes' = Dedupe(uniqueRoutes \o Snapshot(uniqueRoutes[idx]).routes)
    /\ idx' = idx + 1
    /\ pc' = "loop"
    /\ UNCHANGED <<cliVars, evalVars, entryUrl, browser, pageVars, subDoc, navigation, retval,
                   pending, outcome, result, navVars>>
\* const routes = await discoverRoutes(page, url); return {...}; pages.push(...)
ScrapeRoutes ==
    /\ pc = "routes"
    /\ \/ /\ pages' = Append(pages, Snapshot(route))
          /\ idx' = idx + 1
          /\ pc' = "loop"
          /\ UNCHANGED <<browser, pending, outcome, result>>
       \/ Throw /\ UNCHANGED <<pages, idx>>
    /\ UNCHANGED <<cliVars, evalVars, entryUrl, pageVars, subDoc, uniqueRoutes, navigation, retval,
                   navVars>>

\* const navigation = await extractNavigation(page)
ExtractNavigation ==
    /\ pc = "extractNavigation"
    /\ \/ /\ navigation' = [page |-> currentUrl]
          /\ pc' = "extractGlobalStyles"
          /\ UNCHANGED <<browser, pending, outcome, result>>
       \/ Throw /\ UNCHANGED navigation
    /\ UNCHANGED <<cliVars, evalVars, entryUrl, pageVars, subDoc, uniqueRoutes, idx, pages, retval,
                   navVars>>

\* return { baseUrl, pages, navigation, globalStyles: await extractGlobalStyles(page) }
ExtractGlobalStyles ==
    /\ pc = "extractGlobalStyles"
    /\ \/ /\ retval' = [baseUrl |-> entryUrl, pages |-> pages,
                        navigation |-> navigation,
                        globalStyles |-> [page |-> currentUrl]]
          /\ pc' = "finally"
          /\ UNCHANGED <<browser, pending, outcome, result>>
       \/ Throw /\ UNCHANGED retval
    /\ UNCHANGED <<cliVars, evalVars, entryUrl, pageVars, subDoc, uniqueRoutes, idx, pages,
                   navigation, navVars>>

\* how the call ends once the finally block has run
CompletionPartial(pend, closeOk) ==
    IF ~closeOk THEN [outcome |-> "raised", result |-> NoResult]
    ELSE IF pend = "raise"
         THEN [outcome |-> "returned",
               result |-> [baseUrl |-> entryUrl, pages |-> pages,
                           navigation |-> navigation,
                           globalStyles |-> [page |-> currentUrl]]]
         ELSE [outcome |-> "returned", result |-> retval]
Completion(pend, closeOk) ==
    IF pend = "raise" \/ ~closeOk
    THEN [outcome |-> "raised", result |-> NoResult]
    ELSE [outcome |-> "returned", result |-> retval]

\* finally { await browser.close() }
Finally ==
    /\ pc = "finally"
    /\ browser' = "closed"
    /\ \E closeOk \in BOOLEAN :
         /\ outcome' = Completion(pending, closeOk).outcome
         /\ result' = Completion(pending, closeOk).result
    /\ pc' = "done"
    /\ UNCHANGED <<cliVars, evalVars, entryUrl, pageVars, subDoc, crawlVars, pending, navVars>>

Init ==
    /\ entryUrl \in EntryUrls
    /\ subDoc \in SubDocs
    /\ pc = "launch"
    /\ browser = "none"
    /\ currentUrl = NotLoaded
    /\ document = <<>>
    /\ entryDoc = NotLoaded
    /\ uniqueRoutes = <<>>
    /\ idx = 1
    /\ pages = <<>>
    /\ navigation = NoResult
    /\ retval = NoResult
    /\ pending = "none"
    /\ outcome = "none"
    /\ result = NoResult
    /\ navpc = "idle"
    /\ navUrl = NotLoaded
    /\ attempt = 0
    /\ navLog = <<>>
    /\ evalIn = NoResult
    /\ evalOut = NoResult
    /\ CliIdle

Next ==
    \/ Launch
    \/ NewPage
    \/ SetViewport
    \/ EntryNavigate
    \/ NavStrict
    \/ NavLenient
    \/ NavHydrate
    \/ EntryNavigated
    \/ EntryDelay
    \/ DiscoverEntry
    \/ LoopTest
    \/ ScrapeCheckUrl
    \/ ScrapeNavigated
    \/ ScrapeDelay
    \/ ScrapeTitle
    \/ ScrapeContent
    \/ ScrapeScreenshot
    \/ ScrapeComponents
    \/ ScrapeTextContent
    \/ ScrapeRoutes
    \/ ExtractNavigation
    \/ ExtractGlobalStyles
    \/ Finally

Spec == Init /\ [][Next]_vars

(***************************************************************************)
(* The callbacks run inside the page by page.evaluate                      *)
(*                                                                         *)
(* A DOM node is a text node [nodeType, textContent] or an element         *)
(* [nodeType, tagName, attributes, classList, childNodes].  A string is    *)
(* the sequence of its characters.  tagName is upper case for an HTML      *)
(* element and keeps its case for an element of a foreign namespace, such  *)
(* as the <style> of an inline <svg>.                                      *)
(***************************************************************************)
\* number of nodes of a document body or of a navigation document
MaxNodes == 3

\* text: directText.slice(0, 200)
TEXT_SLICE == 200

Rep(c, n) == [i \in 1..n |-> c]

TextNode(t) == [nodeType |-> "text", textContent |-> t]
Element(kind, nodes) ==
    [nodeType |-> "element", tagName |-> kind.tagName,
     attributes |-> kind.attributes, classList |-> kind.classList,
     childNodes |-> nodes]

Attr(n, v) == [name |-> n, value |-> v]

Plain(tag) == [tagName |-> tag, attributes |-> <<>>, classList |-> <<>>]
Div ==
    [tagName |-> "DIV",
     attributes |-> <<Attr(<<"class">>, "c1 c2"), Attr(<<"data-", "id">>, "7"),
                      Attr(<<"onclick">>, "f()"), Attr(<<"role">>, "main")>>,
     classList |-> <<"c1", "c2">>]
SvgStyle == Plain("style")

\* the elements a document body is built from
BodyKinds == {Div, Plain("SCRIPT"), Plain("STYLE"), Plain("NOSCRIPT"), SvgStyle}

ShortText == <<" ", "a", "b", " ">>
HalfText == Rep("x", 250)
SolidText == Rep("y", 500)
PaddedText == Rep(" ", 200) \o Rep("z", 100) \o Rep(" ", 200)

\* the contents of the text nodes of a document body
BodyTexts == {ShortText, HalfText, SolidText, PaddedText}

\* the node sequences of exactly n nodes over element kinds K and texts X
RECURSIVE ForestsExact(_, _, _)
TreesExact(K, X, n) ==
    (IF n = 1 THEN {TextNode(t) : t \in X} ELSE {})
      \cup {Element(k, f) : k \in K, f \in ForestsExact(K, X, n - 1)}
ForestsExact(K, X, n) ==
    IF n = 0 THEN {<<>>}
    ELSE UNION {
           {<<t>> \o f : t \in TreesExact(K, X, m), f \in ForestsExact(K, X, n - m)}
           : m \in 1..n}

Forests(K, X, n) == UNION {ForestsExact(K, X, m) : m \in 0..n}

IsElement(node) == node.nodeType = "element"
IsText(node) == node.nodeType = "text"

\* el.children
Children(el) == SelectSeq(el.childNodes, IsElement)

\* String.prototype.toLowerCase on a tag name
ToLowerCase(tag) ==
    CASE tag = "DIV" -> "div"
      [] tag = "SCRIPT" -> "script"
      [] tag = "STYLE" -> "style"
      [] tag = "NOSCRIPT" -> "noscript"
      [] tag = "NAV" -> "nav"
      [] tag = "A" -> "a"
      [] OTHER -> tag

WhiteSpace == {" "}

\* String.prototype.trim
Trim(t) ==
    LET ink == {i \in 1..Len(t) : t[i] \notin WhiteSpace}
    IN  IF ink = {} THEN <<>>
        ELSE SubSeq(t, CHOOSE i \in ink : \A j \in ink : i <= j,
                       CHOOSE i \in ink : \A j \in ink : i >= j)

\* String.prototype.slice(0, n)
SliceAll(t, n) == t
Slice(t, n) == IF Len(t) <= n THEN t ELSE SubSeq(t, 1, n)

RECURSIVE Concat(_)
Concat(ss) == IF ss = <<>> THEN <<>> ELSE Head(ss) \o Concat(Tail(ss))

\* the attributes extractComponent keeps
KeptAttribute(a) ==
    \/ Head(a.name) = "data-"
    \/ a.name \in {<<"role">>, <<"aria-label">>, <<"placeholder">>, <<"type">>,
                   <<"href">>, <<"src">>, <<"alt">>}

\* for (const node of el.childNodes) if (node.nodeType === Node.TEXT_NODE)
\*     directText += (node.textContent ?? "").trim()
RECURSIVE TextContent(_)
TextContent(node) ==
    IF IsText(node) THEN node.textContent
    ELSE Concat([i \in 1..Len(node.childNodes) |-> TextContent(node.childNodes[i])])
DirectTextOfDescendants(el) ==
    Concat([i \in 1..Len(el.childNodes) |-> Trim(TextContent(el.childNodes[i]))])
DirectText(el) ==
    LET texts == SelectSeq(el.childNodes, IsText)
    IN  Concat([i \in 1..Len(texts) |-> Trim(texts[i].textContent)])

Null == [null |-> TRUE]

\* the tags extractComponent returns null for
IsPruned(el) == el.tagName \in {"SCRIPT", "STYLE", "NOSCRIPT"}

\* function extractComponent(el): null for a pruned element, else the node
\* with the components of the children that are not null
RECURSIVE extractComponent(_)
RECURSIVE ExtractEach(_)
ExtractEach(els) ==
    IF els = <<>> THEN <<>>
    ELSE LET extracted == extractComponent(Head(els))
         IN  (IF extracted # Null THEN <<extracted>> ELSE <<>>)
               \o ExtractEach(Tail(els))
extractComponent(el) ==
    IF IsPruned(el) THEN Null
    ELSE [tag |-> ToLowerCase(el.tagName),
          classes |-> el.classList,
          text |-> Slice(DirectText(el), TEXT_SLICE),
          attributes |-> SelectSeq(el.attributes, KeptAttribute),
          children |-> ExtractEach(Children(el))]

\* a document: its body element, when it has one, with its child nodes
Document(nodes) == [hasBody |-> TRUE, childNodes |-> nodes]
NoBody == [hasBody |-> FALSE, childNodes |-> <<>>]

\* const body = document.querySelector("body"); if (!body) return [];
\* else the components of body.children that are not null
ExtractComponents(dom) ==
    IF ~dom.hasBody THEN <<>> ELSE ExtractEach(Children(dom))

\* the documents the component extraction is run against: bodies of every
\* element kind with short texts, and bodies of div elements with every text
DomInputs(n) ==
    {[kind |-> "dom", dom |-> d] :
        d \in {NoBody}
                \cup {Document(f) : f \in Forests(BodyKinds, {ShortText}, n)}
                \cup {Document(f) : f \in Forests({Div}, BodyTexts, n)}}

\* const components = await page.evaluate(() => { ... })
EvalComponents ==
    /\ pc = "evaluate"
    /\ evalIn.kind = "dom"
    /\ evalOut' = ExtractComponents(evalIn.dom)
    /\ pc' = "evaluated"
    /\ UNCHANGED <<cliVars, evalIn, entryUrl, browser, pageVars, subDoc, crawlVars,
                   pending, outcome, result, navVars>>

(***************************************************************************)
(* extractNavigation                                                       *)
(***************************************************************************)
Nav == Plain("NAV")
RoleNav ==
    [tagName |-> "DIV",
     attributes |-> <<Attr(<<"role">>, "navigation")>>,
     classList |-> <<>>]
Anchor(href) ==
    [tagName |-> "A", attributes |-> <<Attr(<<"href">>, href)>>, classList |-> <<>>]
BareAnchor == Plain("A")

\* the elements a navigation document is built from
NavKinds == {Nav, RoleNav, Plain("DIV"), Anchor("/p"), Anchor("/q"), BareAnchor}
NavTexts == {ShortText}

\* the elements below a node sequence, in document order
RECURSIVE Descendants(_)
Descendants(nodes) ==
    IF nodes = <<>> THEN <<>>
    ELSE (IF IsElement(Head(nodes))
          THEN <<Head(nodes)>> \o Descendants(Head(nodes).childNodes)
          ELSE <<>>)
         \o Descendants(Tail(nodes))

\* el.getAttribute(name) ?? ""
GetAttribute(el, name) ==
    LET found == SelectSeq(el.attributes, LAMBDA a : a.name = name)
    IN  IF found = <<>> THEN "" ELSE Head(found).value

IsNavElement(el) == el.tagName = "NAV"
HasNavRole(el) == GetAttribute(el, <<"role">>) = "navigation"

\* document.querySelector("nav") ?? document.querySelector("[role='navigation']")
LandmarkRoleFirst(dom) ==
    LET byRole == SelectSeq(Descendants(dom.childNodes), HasNavRole)
        byTag == SelectSeq(Descendants(dom.childNodes), IsNavElement)
    IN  IF byRole # <<>> THEN <<Head(byRole)>>
        ELSE IF byTag # <<>> THEN <<Head(byTag)>>
        ELSE <<>>
Landmark(dom) ==
    LET byTag == SelectSeq(Descendants(dom.childNodes), IsNavElement)
        byRole == SelectSeq(Descendants(dom.childNodes), HasNavRole)
    IN  IF byTag # <<>> THEN <<Head(byTag)>>
        ELSE IF byRole # <<>> THEN <<Head(byRole)>>
        ELSE <<>>

\* items.push({ label: link.textContent?.trim() ?? "", href: ..., children: [] })
NavItem(link) ==
    [label |-> Trim(TextContent(link)),
     href |-> GetAttribute(link, <<"href">>),
     children |-> <<>>]

\* function extractItems(container): one item per container.querySelectorAll("a")
ExtractItems(container) ==
    LET links == SelectSeq(Descendants(container.childNodes),
                           LAMBDA el : el.tagName = "A")
    IN  [i \in 1..Len(links) |-> NavItem(links[i])]

\* if (!nav) return []; return extractItems(nav)
ExtractNavigationItems(dom) ==
    IF Landmark(dom) = <<>> THEN <<>> ELSE ExtractItems(Head(Landmark(dom)))

NavInputs(n) ==
    {[kind |-> "nav", dom |-> Document(f)] : f \in Forests(NavKinds, NavTexts, n)}

\* return page.evaluate(() => { ... }) of extractNavigation
EvalNavigation ==
    /\ pc = "evaluate"
    /\ evalIn.kind = "nav"
    /\ evalOut' = ExtractNavigationItems(evalIn.dom)
    /\ pc' = "evaluated"
    /\ UNCHANGED <<cliVars, evalIn, entryUrl, browser, pageVars, subDoc, crawlVars,
                   pending, outcome, result, navVars>>

(***************************************************************************)
(* extractGlobalStyles                                                     *)
(*                                                                         *)
(* A stylesheet either throws when its cssRules are read or holds a        *)
(* sequence of rules.  A selector is the sequence of its compound parts.   *)
(***************************************************************************)
\* number of stylesheets and rules of a document
MaxCss == 5

StyleRule(sel, css) == [styleRule |-> TRUE, selectorText |-> sel, cssText |-> css]
MediaRule == [styleRule |-> FALSE, selectorText |-> <<>>, cssText |-> "@media{body{}}"]

RuleKinds ==
    {StyleRule(<<":root">>, ":root{--c:1}"),
     StyleRule(<<":root", " ", "div">>, ":root div{}"),
     StyleRule(<<"body">>, "body{margin:0}"),
     StyleRule(<<"html", ".dark">>, "html.dark{}"),
     StyleRule(<<".card">>, ".card{}"),
     MediaRule}

CrossOriginSheet == [throws |-> TRUE, cssRules |-> <<>>]
Sheet(rules) == [throws |-> FALSE, cssRules |-> rules]

\* the stylesheet lists holding exactly n stylesheets and rules
RECURSIVE SheetsExact(_)
SheetsExact(n) ==
    IF n = 0 THEN {<<>>}
    ELSE UNION {
           {<<sh>> \o rest :
               sh \in (IF m = 1 THEN {CrossOriginSheet} ELSE {})
                        \cup {Sheet(r) : r \in [1..(m - 1) -> RuleKinds]},
               rest \in SheetsExact(n - m)}
           : m \in 1..n}

SheetInputs(n) ==
    {[kind |-> "css", styleSheets |-> ss] : ss \in UNION {SheetsExact(m) : m \in 0..n}}

\* rule instanceof CSSStyleRule && (selectorText === ":root" ||
\*     selectorText.startsWith("body") || selectorText.startsWith("html"))
KeptRule(rule) ==
    /\ rule.styleRule
    /\ \/ rule.selectorText = <<":root">>
       \/ Head(rule.selectorText) = "body"
       \/ Head(rule.selectorText) = "html"

\* the rules one iteration of the outer loop pushes: none when reading
\* sheet.cssRules throws inside the try block
PushedFrom(sheet) ==
    IF sheet.throws THEN <<>>
    ELSE LET kept == SelectSeq(sheet.cssRules, KeptRule)
         IN  [i \in 1..Len(kept) |-> kept[i].cssText]

\* Array.prototype.join("\n")
RECURSIVE Join(_)
Join(ss) ==
    IF ss = <<>> THEN <<>>
    ELSE IF Len(ss) = 1 THEN ss
    ELSE <<Head(ss), "\n">> \o Join(Tail(ss))

RECURSIVE StylesUntilThrow(_)
StylesUntilThrow(sheets) ==
    IF sheets = <<>> \/ Head(sheets).throws THEN <<>>
    ELSE PushedFrom(Head(sheets)) \o StylesUntilThrow(Tail(sheets))
\* for (const sheet of document.styleSheets) try { ... } catch {}
CollectStyles(sheets) ==
    Concat([i \in 1..Len(sheets) |-> PushedFrom(sheets[i])])

extractGlobalStyles(sheets) == Join(CollectStyles(sheets))

\* return page.evaluate(() => { ... }) of extractGlobalStyles
EvalStyles ==
    /\ pc = "evaluate"
    /\ evalIn.kind = "css"
    /\ evalOut' = extractGlobalStyles(evalIn.styleSheets)
    /\ pc' = "evaluated"
    /\ UNCHANGED <<cliVars, evalIn, entryUrl, browser, pageVars, subDoc, crawlVars,
                   pending, outcome, result, navVars>>

InitEval ==
    /\ \/ evalIn \in DomInputs(MaxNodes)
       \/ evalIn \in NavInputs(MaxNodes)
       \/ evalIn \in SheetInputs(MaxCss)
    /\ evalOut = NoResult
    /\ pc = "evaluate"
    /\ entryUrl = Entry
    /\ subDoc = <<>>
    /\ browser = "open"
    /\ currentUrl = Entry
    /\ document = <<>>
    /\ entryDoc = NotLoaded
    /\ uniqueRoutes = <<>>
    /\ idx = 1
    /\ pages = <<>>
    /\ navigation = NoResult
    /\ retval = NoResult
    /\ pending = "none"
    /\ outcome = "none"
    /\ result = NoResult
    /\ navpc = "idle"
    /\ navUrl = NotLoaded
    /\ attempt = 0
    /\ navLog = <<>>
    /\ CliIdle

NextEval ==
    \/ EvalComponents
    \/ EvalNavigation
    \/ EvalStyles

SpecEval == InitEval /\ [][NextEval]_vars

(***************************************************************************)
(* findChromePath                                                          *)
(***************************************************************************)
\* the crawler is not running
ScraperIdle ==
    /\ entryUrl = Entry
    /\ subDoc = <<>>
    /\ pc = "idle"
    /\ browser = "none"
    /\ currentUrl = NotLoaded
    /\ document = <<>>
    /\ entryDoc = NotLoaded
    /\ uniqueRoutes = <<>>
    /\ idx = 1
    /\ pages = <<>>
    /\ navigation = NoResult
    /\ retval = NoResult
    /\ pending = "none"
    /\ outcome = "none"
    /\ result = NoResult
    /\ navpc = "idle"
    /\ navUrl = NotLoaded
    /\ attempt = 0
    /\ navLog = <<>>
    /\ evalIn = NoResult
    /\ evalOut = NoResult

\* const candidates = [ ... ]
candidates ==
    <<"/usr/bin/google-chrome",
      "/usr/bin/google-chrome-stable",
      "/usr/bin/chromium",
      "/usr/bin/chromium-browser",
      "/Applications/Google Chrome.app/Contents/MacOS/Google Chrome",
      "C:\\Program Files\\Google\\Chrome\\Application\\chrome.exe">>

\* process.env.CHROME_PATH: not set, set to the empty string, set to a path
Unset == [set |-> FALSE, value |-> ""]
SetTo(v) == [set |-> TRUE, value |-> v]
EnvValues == {Unset, SetTo(""), SetTo("/opt/chrome/chrome")}

\* if (process.env.CHROME_PATH): undefined and "" are falsy
Truthy(e) == e.set /\ e.value # ""

\* the function reads the environment and nothing else
findChromePath(e) == IF Truthy(e) THEN e.value ELSE candidates[1]

FindChromePath ==
    /\ chromePath = NoResult
    /\ chromePath' = [path |-> findChromePath(env)]
    /\ UNCHANGED <<env, disk, scraperVars, evalVars, genVars, jiraVars, codeVars>>

InitChrome ==
    /\ env \in EnvValues
    /\ disk \in SUBSET {candidates[i] : i \in 1..Len(candidates)}
    /\ chromePath = NoResult
    /\ ScraperIdle
    /\ GenIdle
    /\ JiraIdle
    /\ CodeIdle

NextChrome == FindChromePath

SpecChrome == InitChrome /\ [][NextChrome]_vars

(***************************************************************************)
(* The generate command                                                    *)
(***************************************************************************)
\* the awaited calls of the try block of each stage, in order
CacheCalls == <<"import scraped_app.json">>
ScrapeCalls == <<"scrapeLovableApp", "writeFile">>
PrdCalls == <<"analyzeAppForPRD", "writePRDToMarkdown", "writePRDToJSON">>
StoryCalls == <<"generateUserStories", "writeStoriesToMarkdown", "writeStoriesToJSON">>
JiraCalls == <<"new JiraClient", "createAllFromEpics">>
CodeCalls == <<"generateVueCode", "writeGeneratedProject">>

\* a try block whose first n calls return; when n < Len(calls) call n + 1
\* throws and the catch clause runs
Attempt(stage, calls, n) ==
    [stage |-> stage,
     calls |-> SubSeq(calls, 1, IF n < Len(calls) THEN n + 1 ELSE n),
     ok |-> n = Len(calls)]

\* try { ... } catch { spinner.fail(...); process.exit(1) }
Mandatory(stage, calls, next) ==
    \E n \in 0..Len(calls) :
        /\ genLog' = Append(genLog, Attempt(stage, calls, n))
        /\ IF n = Len(calls)
           THEN gpc' = next /\ UNCHANGED exitCode
           ELSE gpc' = "exited" /\ exitCode' = 1

\* try { ... } catch { spinner.fail(...) }
OptionalFatal(stage, calls, next) == Mandatory(stage, calls, next)
Optional(stage, calls, next) ==
    \E n \in 0..Len(calls) :
        /\ genLog' = Append(genLog, Attempt(stage, calls, n))
        /\ gpc' = next
        /\ UNCHANGED exitCode

\* Step 1 with --skip-scrape
LoadCache ==
    /\ gpc = "scrape"
    /\ opts.skipScrape
    /\ Mandatory("cache", CacheCalls, "prd")
    /\ UNCHANGED <<opts, config, chromeVars, scraperVars, evalVars, jiraVars, codeVars>>

\* Step 1 without it
Scrape ==
    /\ gpc = "scrape"
    /\ ~opts.skipScrape
    /\ Mandatory("scrape", ScrapeCalls, "prd")
    /\ UNCHANGED <<opts, config, chromeVars, scraperVars, evalVars, jiraVars, codeVars>>

\* Step 2
GeneratePRD ==
    /\ gpc = "prd"
    /\ Mandatory("prd", PrdCalls, "stories")
    /\ UNCHANGED <<opts, config, chromeVars, scraperVars, evalVars, jiraVars, codeVars>>

\* Step 3
GenerateStories ==
    /\ gpc = "stories"
    /\ Mandatory("stories", StoryCalls, "jira")
    /\ UNCHANGED <<opts, config, chromeVars, scraperVars, evalVars, jiraVars, codeVars>>

\* Step 4
PushToJira ==
    /\ gpc = "jira"
    /\ IF ~opts.skipJira /\ config.jiraValid
       THEN Optional("jira", JiraCalls, "code")
       ELSE gpc' = "code" /\ UNCHANGED <<genLog, exitCode>>
    /\ UNCHANGED <<opts, config, chromeVars, scraperVars, evalVars, jiraVars, codeVars>>

\* Step 5
GenerateCode ==
    /\ gpc = "code"
    /\ IF ~opts.skipCode
       THEN Optional("code", CodeCalls, "summary")
       ELSE gpc' = "summary" /\ UNCHANGED <<genLog, exitCode>>
    /\ UNCHANGED <<opts, config, chromeVars, scraperVars, evalVars, jiraVars, codeVars>>

\* the summary is printed and the action returns
Summary ==
    /\ gpc = "summary"
    /\ gpc' = "exited"
    /\ exitCode' = 0
    /\ UNCHANGED <<opts, config, genLog, chromeVars, scraperVars, evalVars, jiraVars, codeVars>>

InitGenerate ==
    /\ opts \in [skipScrape : BOOLEAN, skipJira : BOOLEAN, skipCode : BOOLEAN]
    /\ config \in [jiraValid : BOOLEAN]
    /\ gpc = "scrape"
    /\ genLog = <<>>
    /\ exitCode = Running
    /\ ChromeIdle
    /\ JiraIdle
    /\ CodeIdle
    /\ ScraperIdle

NextGenerate ==
    \/ LoadCache
    \/ Scrape
    \/ GeneratePRD
    \/ GenerateStories
    \/ PushToJira
    \/ GenerateCode
    \/ Summary

SpecGenerate == InitGenerate /\ [][NextGenerate]_vars

(***************************************************************************)
(* JiraClient.createAllFromEpics                                           *)
(***************************************************************************)
\* epics, stories and subtasks of the argument, together
MaxItems == 4

\* a story with k subtasks; a subtask is told by its title
Story(k) == [subtasks |-> [t \in 1..k |-> [title |-> t]]]
Epic(stories) == [stories |-> stories]

\* the story lists of exactly n stories and subtasks
RECURSIVE StoriesExact(_)
StoriesExact(n) ==
    IF n = 0 THEN {<<>>}
    ELSE UNION {{<<Story(k - 1)>> \o rest : rest \in StoriesExact(n - k)} : k \in 1..n}

\* the epic lists of exactly n epics, stories and subtasks
RECURSIVE EpicsExact(_)
EpicsExact(n) ==
    IF n = 0 THEN {<<>>}
    ELSE UNION {
           {<<Epic(st)>> \o rest : st \in StoriesExact(k - 1), rest \in EpicsExact(n - k)}
           : k \in 1..n}

EpicInputs(n) == UNION {EpicsExact(m) : m \in 0..n}

\* how a fetch ends: the response is ok; the site answers with an error
\* status; the site carries the request out and the response is lost or
\* cannot be read
RequestOutcomes == {"ok", "rejected", "lost"}

NoParent == 0

\* the issue the site creates for a POST /rest/api/3/issue; the summary is
\* told by the place of the item in the argument
Issue(issuetype, item, parent, custom) ==
    [key |-> Len(jira) + 1, issuetype |-> issuetype, summary |-> item,
     parent |-> parent, custom |-> custom]

\* this.request("/rest/api/3/issue", {method: "POST", body: {fields}}) as
\* seen by the site
Post(o, issue) ==
    jira' = IF o = "rejected" THEN jira ELSE Append(jira, issue)

\* await this.initialize()
Initialize ==
    /\ jpc = "initialize"
    /\ \E o \in {"ok", "rejected"} :
         IF o = "ok"
         THEN /\ \E ids \in SUBSET {"epicName", "storyPoints"} :
                    fieldIds' = [discovered |-> TRUE, ids |-> ids]
              /\ jresult' = [epics |-> <<>>, stories |-> <<>>, subtasks |-> <<>>]
              /\ frame' = [e |-> 1, s |-> 1, t |-> 1,
                           epicIssue |-> NoParent, storyIssue |-> NoParent]
              /\ jpc' = "epics"
         ELSE /\ jpc' = "raised"
              /\ UNCHANGED <<fieldIds, jresult, frame>>
    /\ UNCHANGED <<epics, jira, chromeVars, genVars, scraperVars, evalVars, codeVars>>

\* for (const epic of epics)
EpicLoop ==
    /\ jpc = "epics"
    /\ jpc' = IF frame.e <= Len(epics) THEN "createEpic" ELSE "returned"
    /\ UNCHANGED <<epics, frame, fieldIds, jira, jresult,
                   chromeVars, genVars, scraperVars, evalVars, codeVars>>

\* const epicIssue = await this.createEpic(...); result.epics.push(epicIssue)
CreateEpic ==
    /\ jpc = "createEpic"
    /\ \E o \in RequestOutcomes :
         LET issue == Issue("Epic", <<frame.e>>, NoParent,
                            fieldIds.ids \cap {"epicName"})
         IN  /\ Post(o, issue)
             /\ IF o = "ok"
                THEN /\ frame' = [frame EXCEPT !.epicIssue = issue.key, !.s = 1]
                     /\ jresult' = [jresult EXCEPT !.epics = Append(@, issue.key)]
                     /\ jpc' = "stories"
                ELSE jpc' = "raised" /\ UNCHANGED <<frame, jresult>>
    /\ UNCHANGED <<epics, fieldIds, chromeVars, genVars, scraperVars, evalVars, codeVars>>

\* for (const story of epic.stories)
StoryLoop ==
    /\ jpc = "stories"
    /\ IF frame.s <= Len(epics[frame.e].stories)
       THEN jpc' = "createStory" /\ UNCHANGED frame
       ELSE jpc' = "epics" /\ frame' = [frame EXCEPT !.e = @ + 1]
    /\ UNCHANGED <<epics, fieldIds, jira, jresult,
                   chromeVars, genVars, scraperVars, evalVars, codeVars>>

CreateStoryNoAbort ==
    /\ jpc = "createStory"
    /\ \E o \in RequestOutcomes :
         LET issue == Issue("Story", <<frame.e, frame.s>>, frame.epicIssue,
                            fieldIds.ids \cap {"storyPoints"})
         IN  /\ Post(o, issue)
             /\ frame' = [frame EXCEPT !.storyIssue = issue.key, !.t = 1]
             /\ jresult' = [jresult EXCEPT !.stories = Append(@, issue.key)]
             /\ jpc' = "subtasks"
    /\ UNCHANGED <<epics, fieldIds, chromeVars, genVars, scraperVars, evalVars, codeVars>>
\* const storyIssue = await this.createStory(story, epicIssue.key);
\* result.stories.push(storyIssue)
CreateStory ==
    /\ jpc = "createStory"
    /\ \E o \in RequestOutcomes :
         LET issue == Issue("Story", <<frame.e, frame.s>>, frame.epicIssue,
                            fieldIds.ids \cap {"storyPoints"})
         IN  /\ Post(o, issue)
             /\ IF o = "ok"
                THEN /\ frame' = [frame EXCEPT !.storyIssue = issue.key, !.t = 1]
                     /\ jresult' = [jresult EXCEPT !.stories = Append(@, issue.key)]
                     /\ jpc' = "subtasks"
                ELSE jpc' = "raised" /\ UNCHANGED <<frame, jresult>>
    /\ UNCHANGED <<epics, fieldIds, chromeVars, genVars, scraperVars, evalVars, codeVars>>

\* for (const subtask of story.subtasks)
SubtaskLoop ==
    /\ jpc = "subtasks"
    /\ IF frame.t <= Len(epics[frame.e].stories[frame.s].subtasks)
       THEN jpc' = "createSubtask" /\ UNCHANGED frame
       ELSE jpc' = "stories" /\ frame' = [frame EXCEPT !.s = @ + 1]
    /\ UNCHANGED <<epics, fieldIds, jira, jresult,
                   chromeVars, genVars, scraperVars, evalVars, codeVars>>

\* const subtaskIssue = await this.createSubtask(..., storyIssue.key);
\* result.subtasks.push(subtaskIssue)
CreateSubtask ==
    /\ jpc = "createSubtask"
    /\ \E o \in RequestOutcomes :
         LET issue == Issue("Sub-task", <<frame.e, frame.s, frame.t>>,
                            frame.storyIssue, {})
         IN  /\ Post(o, issue)
             /\ IF o = "ok"
                THEN /\ frame' = [frame EXCEPT !.t = @ + 1]
                     /\ jresult' = [jresult EXCEPT !.subtasks = Append(@, issue.key)]
                     /\ jpc' = "subtasks"
                ELSE jpc' = "raised" /\ UNCHANGED <<frame, jresult>>
    /\ UNCHANGED <<epics, fieldIds, chromeVars, genVars, scraperVars, evalVars, codeVars>>

InitJira ==
    /\ epics \in EpicInputs(MaxItems)
    /\ jpc = "initialize"
    /\ frame = NoResult
    /\ fieldIds = Undiscovered
    /\ jira = <<>>
    /\ jresult = NoResult
    /\ ChromeIdle
    /\ GenIdle
    /\ CodeIdle
    /\ ScraperIdle

NextJira ==
    \/ Initialize
    \/ EpicLoop
    \/ CreateEpic
    \/ StoryLoop
    \/ CreateStory
    \/ SubtaskLoop
    \/ CreateSubtask

SpecJira == InitJira /\ [][NextJira]_vars

(***************************************************************************)
(* writeGeneratedProject (src/src/generators/code.ts)                      *)
(*                                                                         *)
(* A path is the sequence of its segments: "./src/App.vue" is              *)
(* <<".", "src", "App.vue">>.  Two paths are the same string when the      *)
(* sequences are equal.                                                    *)
(***************************************************************************)
\* number of files of the generator's answer
MaxFiles == 2

\* getScaffoldFiles()
Scaffold(path, description) ==
    [path |-> path, description |-> description, content |-> "scaffold"]
scaffoldFiles ==
    <<Scaffold(<<"package.json">>, "Project dependencies"),
      Scaffold(<<"vite.config.ts">>, "Vite configuration"),
      Scaffold(<<"tsconfig.json">>, "TypeScript configuration"),
      Scaffold(<<"index.html">>, "HTML entry point"),
      Scaffold(<<"src", "main.ts">>, "Application entry point with PrimeVue setup"),
      Scaffold(<<"env.d.ts">>, "TypeScript env declarations")>>

\* the files an answer of the generator may hold
GenPaths ==
    {<<"package.json">>, <<".", "package.json">>, <<"src", "main.ts">>,
     <<"src", "App.vue">>}
GenContents == {"generated 1", "generated 2"}
GenFiles == [path : GenPaths, description : {"generated"}, content : GenContents]

\* the text of the answer: not JSON; the JSON text of an array of files; the
\* JSON text of a value that is not an array
RawText == "<template><div/></template>"
NotJson == [json |-> "invalid", raw |-> RawText, value |-> <<>>]
JsonArray(files) == [json |-> "array", raw |-> "[...]", value |-> files]
JsonObject == [json |-> "object", raw |-> "{}", value |-> <<>>]
JsonInputs(n) ==
    {NotJson, JsonObject} \cup {JsonArray(f) : f \in SeqsUpTo(GenFiles, n)}

\* try { files = JSON.parse(filesJson) } catch { files = [{path: "src/App.vue", ...}] }
ParsedFiles(text) ==
    IF text.json = "invalid"
    THEN <<[path |-> <<"src", "App.vue">>, content |-> text.raw,
            description |-> "Generated application code"]>>
    ELSE text.value

\* for (const sf of scaffoldFiles) if (!existingPaths.has(sf.path)) files.push(sf)
WithScaffold(files) ==
    LET existingPaths == {files[i].path : i \in 1..Len(files)}
    IN  files \o SelectSeq(scaffoldFiles, LAMBDA sf : sf.path \notin existingPaths)

\* join(codeDir, file.path) below codeDir: path.join drops the "." segments
FullPath(path) == SelectSeq(path, LAMBDA seg : seg # ".")

\* await writeFile(fullPath, content, "utf-8")
WriteFile(fs, fullPath, content) ==
    [p \in DOMAIN fs \cup {fullPath} |-> IF p = fullPath THEN content ELSE fs[p]]

\* for (const file of files) { mkdir; writeFile }
RECURSIVE WriteAll(_, _)
WriteAll(fs, files) ==
    IF files = <<>> THEN fs
    ELSE WriteAll(WriteFile(fs, FullPath(Head(files).path), Head(files).content),
                  Tail(files))

\* the whole call, every mkdir and writeFile succeeding; files.map throws a
\* TypeError when the JSON value is not an array
WriteGeneratedProject ==
    /\ project = NoResult
    /\ IF filesJson.json = "object"
       THEN project' = [raised |-> TRUE, files |-> <<>>] /\ UNCHANGED codeDir
       ELSE LET files == WithScaffold(ParsedFiles(filesJson))
            IN  /\ codeDir' = WriteFile(WriteAll(codeDir, files),
                                        <<"README.md">>, "setupInstructions")
                /\ project' = [raised |-> FALSE, files |-> files]
    /\ UNCHANGED <<filesJson, chromeVars, genVars, jiraVars, scraperVars, evalVars>>

InitCode ==
    /\ filesJson \in JsonInputs(MaxFiles)
    /\ codeDir = <<>>
    /\ project = NoResult
    /\ ChromeIdle
    /\ GenIdle
    /\ JiraIdle
    /\ ScraperIdle

NextCode == WriteGeneratedProject

SpecCode == InitCode /\ [][NextCode]_vars

(***************************************************************************)
(* Properties                                                              *)
(***************************************************************************)
Failed(e) == e.outcome # "ok"
Strict(e) == e.waitUntil = "networkidle2"
Lenient(e) == e.waitUntil = "domcontentloaded"
LogIdx == 1..Len(navLog)
NavEnded == navpc \in {"returned", "raised"}

\* C1: once scrapeLovableApp has returned or raised after the browser was
\* launched, browser.close() has been called, whichever step failed.
C1_SessionReleased ==
    (outcome # "none" /\ browser # "none") => browser = "closed"

\* a page extraction of the loop failed after a snapshot was already pushed
C1_Witness ==
    /\ outcome = "raised"
    /\ browser = "closed"
    /\ pages # <<>>
    /\ idx <= Len(uniqueRoutes)

\* C2: the call ends as returned or raised; a returned result holds one
\* snapshot for every frontier member and nothing else; a raised call, and a
\* call still running, expose no result, whatever was extracted so far.
C2_AllOrNothing ==
    /\ pc = "done" <=> outcome \in {"returned", "raised"}
    /\ outcome # "returned" => result = NoResult
    /\ outcome = "returned" =>
         /\ result # NoResult
         /\ Len(result.pages) = Len(uniqueRoutes)
         /\ {result.pages[i].url : i \in 1..Len(result.pages)}
              = {uniqueRoutes[i] : i \in 1..Len(uniqueRoutes)}

\* a navigation of the loop raised after two pages had been extracted
C2_Witness ==
    /\ outcome = "raised"
    /\ navpc = "raised"
    /\ Len(pages) = 2
    /\ result = NoResult

\* every strict load of the call so far timed out, every lenient one completed
C3_Target ==
    /\ navLog # <<>>
    /\ \A i \in LogIdx : Strict(navLog[i]) => navLog[i].outcome = "timeout"
    /\ \A i \in LogIdx : Lenient(navLog[i]) => navLog[i].outcome = "ok"

\* C3: for a target that times out under networkidle2 and loads under
\* domcontentloaded, navigateWithRetry never raises, has returned only after
\* a completed load, and issues at most NAV_RETRIES + 1 loads.
C3_LenientFallbackSucceeds ==
    C3_Target =>
        /\ navpc # "raised"
        /\ Len(navLog) <= NAV_RETRIES + 1
        /\ navpc = "returned" => navLog[Len(navLog)].outcome = "ok"

C3_Witness ==
    /\ C3_Target
    /\ navpc = "returned"
    /\ Len(navLog) > 1

\* C4: when the first load of a call fails with a non-timeout error, the call
\* has raised and that load is the only one it issued.
C4_FirstErrorIsFatal ==
    (navLog # <<>> /\ navLog[1].outcome = "error") =>
        navpc = "raised" /\ Len(navLog) = 1

C4_Witness ==
    /\ navpc = "raised"
    /\ navLog = <<Goto("networkidle2", "error")>>
    /\ pc = "navPage"

\* C5 as stated: a non-timeout error of any load, lenient ones included, is
\* the last load of the call and the call has raised.
C5_AnyErrorIsFatal ==
    \A i \in LogIdx :
        navLog[i].outcome = "error" => i = Len(navLog) /\ navpc = "raised"

\* C5 amended: a non-timeout error of a networkidle2 load is the last load of
\* the call and the call has raised; a failure of a domcontentloaded load,
\* timeout or not, never raises: the loop goes on with the next networkidle2
\* load.
C5_StrictErrorIsFatal ==
    \A i \in LogIdx :
        /\ (Strict(navLog[i]) /\ navLog[i].outcome = "error") =>
              i = Len(navLog) /\ navpc = "raised"
        /\ (Lenient(navLog[i]) /\ Failed(navLog[i])) =>
              IF i = Len(navLog) THEN navpc = "strict"
              ELSE Strict(navLog[i + 1])

\* a lenient load failed with a non-timeout error and the next strict load too
C5_Witness ==
    /\ navpc = "raised"
    /\ Len(navLog) = 3
    /\ navLog[2] = Goto("domcontentloaded", "error")
    /\ navLog[3] = Goto("networkidle2", "error")

\* C6 as stated: one call issues at most NAV_RETRIES + 1 page loads.
C6_AtMostThreeLoads == Len(navLog) <= NAV_RETRIES + 1

\* C6 amended: one call issues at most NAV_RETRIES + 1 networkidle2 loads and
\* at most NAV_RETRIES domcontentloaded loads, the two policies alternating
\* from a networkidle2 load on: at most 2 * NAV_RETRIES + 1 loads in total.
C6_LoadBudget ==
    /\ Cardinality({i \in LogIdx : Strict(navLog[i])}) <= NAV_RETRIES + 1
    /\ Cardinality({i \in LogIdx : Lenient(navLog[i])}) <= NAV_RETRIES
    /\ Len(navLog) <= NAV_RETRIES + NAV_RETRIES + 1
    /\ \A i \in LogIdx : Strict(navLog[i]) <=> i % 2 = 1

\* the budget is used up: every load of the call failed
C6_Witness ==
    /\ navpc = "raised"
    /\ Len(navLog) = NAV_RETRIES + NAV_RETRIES + 1
    /\ \A i \in LogIdx : navLog[i].outcome = "timeout"

\* C7: navigateWithRetry has returned only if the last load it issued
\* completed; it raises with the error of the last load; while every load of
\* the call has failed the call is running or has raised, and it has raised
\* once the strict load of attempt NAV_RETRIES failed.
C7_ReturnMeansLoaded ==
    /\ navpc \in {"returned", "hydrate"} =>
          navLog # <<>> /\ navLog[Len(navLog)].outcome = "ok"
    /\ navpc = "raised" => navLog # <<>> /\ Failed(navLog[Len(navLog)])
    /\ (navLog # <<>> /\ \A i \in LogIdx : Failed(navLog[i])) =>
          /\ navpc \in {"strict", "lenient", "raised"}
          /\ attempt <= NAV_RETRIES
          /\ (attempt = NAV_RETRIES /\ Strict(navLog[Len(navLog)])) =>
                navpc = "raised"

\* every load failed until the budget was exhausted
C7_Witness ==
    /\ navpc = "raised"
    /\ attempt = NAV_RETRIES
    /\ Len(navLog) = NAV_RETRIES + NAV_RETRIES + 1
    /\ \A i \in LogIdx : Failed(navLog[i])

Elems(q) == {q[i] : i \in 1..Len(q)}
FirstIndex(q, x) == CHOOSE k \in 1..Len(q) : q[k] = x /\ \A m \in 1..(k - 1) : q[m] # x
FrontierFormed == uniqueRoutes # <<>>

\* the hrefs of the entry document that pass the filter of discoverRoutes
EntryRoutes == {h \in Elems(entryDoc) : AdmitHref(h, Origin(entryUrl))}

\* C8: the frontier holds no string twice, starts with the entry URL, and
\* its other members are exactly the routes discovered on the entry page
\* that differ from the entry URL, in the order of their first occurrence in
\* the document.
C8_FrontierIsDedupedUnion ==
    FrontierFormed =>
        /\ \A i, j \in 1..Len(uniqueRoutes) :
              uniqueRoutes[i] = uniqueRoutes[j] => i = j
        /\ uniqueRoutes[1] = entryUrl
        /\ Elems(uniqueRoutes) = {entryUrl} \cup EntryRoutes
        /\ \A i, j \in 2..Len(uniqueRoutes) :
              i < j => FirstIndex(entryDoc, uniqueRoutes[i])
                         < FirstIndex(entryDoc, uniqueRoutes[j])

\* the entry page links to itself and to one route twice
C8_Witness ==
    /\ FrontierFormed
    /\ entryDoc = <<PageQ, entryUrl, PageQ>>
    /\ uniqueRoutes = <<entryUrl, PageQ>>

\* C9: the pages of a returned result are the snapshots of the frontier
\* members, in frontier order: as many as the frontier has members, the i-th
\* with the i-th member as url, the first being the entry page.
C9_PagesFollowFrontier ==
    outcome = "returned" =>
        /\ Len(result.pages) = Len(uniqueRoutes)
        /\ \A i \in 1..Len(uniqueRoutes) : result.pages[i].url = uniqueRoutes[i]
        /\ result.pages[1].url = entryUrl

\* an entry page linking to two same-origin pages and to another host
C9_Witness ==
    /\ outcome = "returned"
    /\ entryDoc = <<PageP, OtherHost, PageQ>>
    /\ Len(result.pages) = Len(<<entryUrl, PageP, PageQ>>)
    /\ \A i \in 1..Len(result.pages) :
          result.pages[i].url = <<entryUrl, PageP, PageQ>>[i]

\* C10: no frontier member, no URL navigated to and no snapshot url has a
\* scheme, host or port other than that of the entry URL.
C10_OffOriginNeverVisited ==
    /\ \A i \in 1..Len(uniqueRoutes) : SameOrigin(uniqueRoutes[i], entryUrl)
    /\ navpc # "idle" => SameOrigin(navUrl, entryUrl)
    /\ \A i \in 1..Len(pages) : SameOrigin(pages[i].url, entryUrl)

\* the snapshots taken so far: each holds the document discoverRoutes read
\* (html), the base URL it was given (url) and what it returned (routes)
PageIdx == 1..Len(pages)

\* C11: whatever the document and the base URL, the sequence discoverRoutes
\* returns holds no string twice and no string with a fragment marker.
C11_RoutesUniqueNoFragment ==
    \A p \in PageIdx :
        /\ \A i, j \in 1..Len(pages[p].routes) :
              pages[p].routes[i] = pages[p].routes[j] => i = j
        /\ \A i \in 1..Len(pages[p].routes) :
              \A k \in 1..Len(pages[p].routes[i]) : pages[p].routes[i][k] # "#f"

\* a document with a repeated link and a link with a fragment
C11_Witness ==
    \E p \in PageIdx :
        /\ pages[p].html = <<PageP, PageR, PagePFrag, PageP>>
        /\ pages[p].routes = <<PageP, PageR>>

\* the text of s begins with the text of p
TextBeginsWith(s, p) == \E k \in 0..Len(s) : s = p \o SubSeq(s, k + 1, Len(s))

\* C12: discoverRoutes returns exactly the fragment-free hrefs of the
\* document whose text begins with the origin string of the base URL,
\* whether or not their scheme, host and port are those of the base URL.
C12_PrefixSemantics ==
    \A p \in PageIdx :
        Elems(pages[p].routes) =
            {h \in Elems(pages[p].html) :
                /\ TextBeginsWith(h, Origin(pages[p].url))
                /\ "#f" \notin Elems(h)}

\* links to a longer host name and to another port are admitted, a link to
\* another host is not
C12_Witness ==
    \E p \in PageIdx :
        /\ pages[p].html = <<LongerHost, OtherHost, OtherPort>>
        /\ pages[p].routes = <<LongerHost, OtherPort>>
        /\ ~SameOrigin(LongerHost, pages[p].url)
        /\ ~SameOrigin(OtherPort, pages[p].url)

ComponentsExtracted == pc = "evaluated" /\ evalIn.kind = "dom"

\* every node of a component forest, at any depth
RECURSIVE ComponentNodes(_)
ComponentNodes(comps) ==
    UNION {{comps[i]} \cup ComponentNodes(comps[i].children) : i \in 1..Len(comps)}

\* script, style and noscript elements, by element name
NonContent(el) == ToLowerCase(el.tagName) \in {"script", "style", "noscript"}

\* the number of elements of a node sequence that are neither script, style
\* or noscript elements nor inside one
RECURSIVE ContentCount(_)
ContentCount(nodes) ==
    IF nodes = <<>> THEN 0
    ELSE (IF IsElement(Head(nodes)) /\ ~NonContent(Head(nodes))
          THEN 1 + ContentCount(Head(nodes).childNodes) ELSE 0)
         + ContentCount(Tail(nodes))

\* C13: the component tree has no node with tag script, style or noscript
\* at any depth, no node for a descendant of such an element, and no null
\* entry in a children sequence: its nodes are exactly the other elements.
C13_NoScriptStyleNoscript ==
    ComponentsExtracted =>
        /\ \A c \in ComponentNodes(evalOut) :
              /\ c # Null
              /\ c.tag \notin {"script", "style", "noscript"}
        /\ Cardinality(ComponentNodes(evalOut)) <= ContentCount(evalIn.dom.childNodes)

\* the elements the extraction returned a component for, each with its
\* component: the elements with an HTML tag name other than SCRIPT, STYLE and
\* NOSCRIPT, outside such elements
RECURSIVE Extracted(_, _)
Extracted(els, comps) ==
    IF els = <<>> \/ comps = <<>> THEN {}
    ELSE IF Head(els).tagName \in {"SCRIPT", "STYLE", "NOSCRIPT"}
         THEN Extracted(Tail(els), comps)
         ELSE {<<Head(els), Head(comps)>>}
                \cup Extracted(Children(Head(els)), Head(comps).children)
                \cup Extracted(Tail(els), Tail(comps))

ExtractedPairs == Extracted(Children(evalIn.dom), evalOut)

DirectTextNodes(el) == {i \in 1..Len(el.childNodes) : IsText(el.childNodes[i])}

\* C14: the text of a component holds only characters of the text nodes that
\* are immediate children of its element, no more of them than these nodes
\* hold, and is empty when the element has no such child, whatever text its
\* descendant elements hold.
C14_DirectTextOnly ==
    ComponentsExtracted =>
        \A pair \in ExtractedPairs :
            LET el == pair[1]
                c == pair[2]
            IN  /\ DirectTextNodes(el) = {} => c.text = <<>>
                /\ \A k \in 1..Len(c.text) :
                      \E i \in DirectTextNodes(el) :
                          \E m \in 1..Len(el.childNodes[i].textContent) :
                              el.childNodes[i].textContent[m] = c.text[k]

\* an element whose text lives in a child element only
C14_Witness ==
    /\ ComponentsExtracted
    /\ evalIn.dom = Document(<<Element(Div, <<Element(Div, <<TextNode(ShortText)>>)>>)>>)
    /\ Len(evalOut) = 1
    /\ evalOut[1].text = <<>>
    /\ evalOut[1].children[1].text = <<"a", "b">>

\* the number of characters of the direct text nodes of el
RECURSIVE SumOver(_, _)
SumOver(S, f) ==
    IF S = {} THEN 0
    ELSE LET i == CHOOSE j \in S : TRUE IN f[i] + SumOver(S \ {i}, f)

RawLength(el) ==
    SumOver(DirectTextNodes(el),
            [i \in DirectTextNodes(el) |-> Len(el.childNodes[i].textContent)])

\* the number of characters of t from its first to its last character that
\* is not white space
InkLength(t) ==
    LET ink == {i \in 1..Len(t) : t[i] # " "}
    IN  IF ink = {} THEN 0
        ELSE Cardinality({i \in 1..Len(t) :
                 (\E a \in ink : a <= i) /\ (\E b \in ink : i <= b)})

TrimmedLength(el) ==
    SumOver(DirectTextNodes(el),
            [i \in DirectTextNodes(el) |-> InkLength(el.childNodes[i].textContent)])

\* C15 as stated: every text is at most 200 characters long, and an element
\* with 500 characters of direct text, whatever they are, gets a text of
\* exactly 200 characters.
C15_FiveHundredGivesTwoHundred ==
    ComponentsExtracted =>
        \A pair \in ExtractedPairs :
            /\ Len(pair[2].text) <= TEXT_SLICE
            /\ RawLength(pair[1]) = Len(SolidText) => Len(pair[2].text) = TEXT_SLICE

\* C15 amended: every text is at most 200 characters long; its length is
\* the smaller of 200 and the number of characters the direct text nodes
\* hold once each is trimmed of its leading and trailing white space.
C15_TrimmedThenCut ==
    ComponentsExtracted =>
        \A pair \in ExtractedPairs :
            /\ Len(pair[2].text) <= TEXT_SLICE
            /\ Len(pair[2].text) =
                 IF TrimmedLength(pair[1]) <= TEXT_SLICE
                 THEN TrimmedLength(pair[1]) ELSE TEXT_SLICE

\* two direct text nodes of 250 characters each
C15_Witness ==
    /\ ComponentsExtracted
    /\ evalIn.dom = Document(<<Element(Div, <<TextNode(HalfText),
                                              TextNode(HalfText)>>)>>)
    /\ evalOut[1].text = Rep("x", TEXT_SLICE)

StylesExtracted == pc = "evaluated" /\ evalIn.kind = "css"

\* the rules of the readable stylesheets whose selector is ":root" or
\* begins with "body" or "html", as <<stylesheet, rule>> positions
MatchingRules ==
    LET ss == evalIn.styleSheets
    IN  {pos \in (1..Len(ss)) \X (1..MaxCss + 1) :
            /\ ~ss[pos[1]].throws
            /\ pos[2] <= Len(ss[pos[1]].cssRules)
            /\ ss[pos[1]].cssRules[pos[2]].styleRule
            /\ \/ ss[pos[1]].cssRules[pos[2]].selectorText = <<":root">>
               \/ ss[pos[1]].cssRules[pos[2]].selectorText[1] \in {"body", "html"}}

\* the number of matching rules up to pos, in stylesheet order then rule order
Rank(pos) ==
    Cardinality({q \in MatchingRules :
        q[1] < pos[1] \/ (q[1] = pos[1] /\ q[2] <= pos[2])})

\* C16: a stylesheet that throws is skipped; the result is the cssText of
\* every matching rule of every other stylesheet, before or after a throwing
\* one, in stylesheet order then rule order, with a newline between two
\* consecutive ones.
C16_ThrowingSheetSkipped ==
    StylesExtracted =>
        /\ Len(evalOut) =
             IF MatchingRules = {} THEN 0
             ELSE Cardinality(MatchingRules) + Cardinality(MatchingRules) - 1
        /\ \A pos \in MatchingRules :
              evalOut[Rank(pos) + Rank(pos) - 1]
                = evalIn.styleSheets[pos[1]].cssRules[pos[2]].cssText
        /\ \A k \in 1..Len(evalOut) : k % 2 = 0 => evalOut[k] = "\n"

\* a throwing stylesheet between two readable ones
C16_Witness ==
    /\ StylesExtracted
    /\ evalIn.styleSheets =
         <<Sheet(<<StyleRule(<<"body">>, "body{margin:0}")>>),
           CrossOriginSheet,
           Sheet(<<StyleRule(<<":root">>, ":root{--c:1}")>>)>>
    /\ evalOut = <<"body{margin:0}", "\n", ":root{--c:1}">>

NavigationExtracted == pc = "evaluated" /\ evalIn.kind = "nav"

DocElements == Descendants(evalIn.dom.childNodes)
NavTagged == {i \in 1..Len(DocElements) : DocElements[i].tagName = "NAV"}
RoleTagged ==
    {i \in 1..Len(DocElements) :
        \E k \in 1..Len(DocElements[i].attributes) :
            DocElements[i].attributes[k] = Attr(<<"role">>, "navigation")}
Least(S) == CHOOSE i \in S : \A j \in S : i <= j

\* the landmark of the claim: the first nav element, else the first element
\* with role="navigation"
ClaimedLandmark ==
    DocElements[IF NavTagged # {} THEN Least(NavTagged) ELSE Least(RoleTagged)]

\* C17: without a nav element and without an element with
\* role="navigation" the result is empty; otherwise it holds one item per
\* anchor below the first nav element (the first role="navigation" element
\* when there is no nav element), in document order, with the trimmed text
\* of the anchor as label, its href attribute or "" as href, and no children.
C17_NavigationItems ==
    NavigationExtracted =>
        IF NavTagged = {} /\ RoleTagged = {} THEN evalOut = <<>>
        ELSE LET below == Descendants(ClaimedLandmark.childNodes)
                 links == SelectSeq(below, LAMBDA el : el.tagName = "A")
             IN  /\ Len(evalOut) = Len(links)
                 /\ \A i \in 1..Len(links) :
                       /\ evalOut[i].children = <<>>
                       /\ evalOut[i].label = Trim(TextContent(links[i]))
                       /\ evalOut[i].href =
                            IF links[i].attributes = <<>> THEN ""
                            ELSE links[i].attributes[1].value

\* a role="navigation" element before a nav element that holds a link
C17_Witness ==
    /\ NavigationExtracted
    /\ evalIn.dom = Document(<<Element(RoleNav, <<>>),
                               Element(Nav, <<Element(Anchor("/q"), <<>>)>>)>>)
    /\ evalOut = <<[label |-> <<>>, href |-> "/q", children |-> <<>>]>>

\* C18: once formed the frontier never changes, every navigation started
\* afterwards targets one of its members, and the pages of a returned result
\* are those of the entry URL and of the routes discovered on the entry
\* page, whatever routes the visited pages link to.
C18_FrontierFixed ==
    /\ [][FrontierFormed =>
            /\ uniqueRoutes' = uniqueRoutes
            /\ navpc' = "strict" => navUrl' \in Elems(uniqueRoutes)]_vars
    /\ [](outcome = "returned" =>
            {result.pages[i].url : i \in 1..Len(result.pages)}
              = {entryUrl} \cup EntryRoutes)

\* a visited page links to a same-origin page the entry page does not link to
C18_Witness ==
    /\ outcome = "returned"
    /\ \E p \in PageIdx :
          /\ p > 1
          /\ PageR \in Elems(pages[p].routes)
          /\ SameOrigin(PageR, entryUrl)
    /\ PageR \notin Elems(uniqueRoutes)

LastRoute == uniqueRoutes[Len(uniqueRoutes)]

\* C19: navigation and global styles are each extracted at most once per
\* crawl and once in a crawl that returns, after the snapshot of the last
\* frontier member was pushed, from the page that member left loaded.
C19_GlobalsAfterLastPage ==
    /\ [][/\ navigation' # navigation =>
               /\ navigation = NoResult
               /\ Len(pages) = Len(uniqueRoutes)
               /\ navigation'.page = Normalize(LastRoute)
          /\ retval' # retval =>
               /\ retval = NoResult
               /\ navigation # NoResult
               /\ retval'.pages = pages
               /\ Len(pages) = Len(uniqueRoutes)
               /\ retval'.globalStyles.page = Normalize(LastRoute)]_vars
    /\ [](outcome = "returned" =>
            /\ result.navigation = [page |-> Normalize(LastRoute)]
            /\ result.globalStyles = [page |-> Normalize(LastRoute)])

\* a crawl of several pages: the globals come from the last one, not the entry
C19_Witness ==
    /\ outcome = "returned"
    /\ Len(uniqueRoutes) > 1
    /\ result.navigation.page # Normalize(entryUrl)
    /\ result.globalStyles.page = Normalize(LastRoute)

ScrapePcs ==
    {"scrapePage", "navPage", "delayPage", "title", "content", "screenshot",
     "components", "textContent", "routes"}

\* C20: a navigation is in flight only while scrapeLovableApp or scrapePage
\* awaits it; while member idx is being extracted the snapshots of all
\* members before it, each with its discovered routes, have been pushed and
\* no other; a navigation of scrapePage targets member idx.
C20_OnePageAtATime ==
    /\ navpc # "idle" <=> (pc \in {"navEntry", "navPage"}
                             \/ (pc \in {"finally", "done"} /\ navpc = "raised"))
    /\ pc \in ScrapePcs =>
          /\ idx <= Len(uniqueRoutes)
          /\ Len(pages) = idx - 1
    /\ pc = "navPage" => navUrl = uniqueRoutes[idx]
    /\ pc = "loop" => Len(pages) = idx - 1
    /\ \A i \in PageIdx :
          /\ pages[i].url = uniqueRoutes[i]
          /\ pages[i].routes = discoverRoutes(pages[i].html, uniqueRoutes[i])

\* the third member is being loaded after two full extractions
C20_Witness ==
    /\ pc = "navPage"
    /\ navpc = "lenient"
    /\ idx = Len(pages) + 1
    /\ Len(pages) > 1

\* the reads of scrapePage that follow its navigation
ExtractPcs == {"title", "content", "screenshot", "components", "textContent", "routes"}

\* C21 as stated: every frontier member other than the entry URL is
\* navigated to by its page extraction before it is extracted.
C21_OthersAlwaysNavigated ==
    [][pc = "scrapePage" /\ route # entryUrl => pc' = "navPage"]_vars

\* C21: page extraction for member idx calls the navigator for that member,
\* from attempt 0, exactly when the URL the page reports differs from it, and
\* otherwise reads the page as it is; the reads start either straight from
\* the test, the URLs being equal, or from the settle delay that follows a
\* navigation that returned; while the page is read it shows the member in
\* the serialisation of the browser.  A member equal to the URL the browser
\* reports for the member before it is read without a navigation.
C21_NavigatesIffUrlDiffers ==
    /\ [][/\ pc = "scrapePage" =>
               IF currentUrl # route
               THEN pc' = "navPage" /\ navpc' = "strict" /\ navUrl' = route
                    /\ attempt' = 0 /\ navLog' = <<>>
               ELSE pc' = "title" /\ navpc' = "idle" /\ UNCHANGED pageVars
          /\ pc = "navPage" /\ pc' # pc =>
               IF navpc = "returned" THEN pc' = "delayPage" ELSE pc' = "finally"
          /\ pc = "delayPage" => pc' = "title" /\ UNCHANGED pageVars
          /\ pc' = "title" =>
               \/ pc = "delayPage"
               \/ pc = "scrapePage" /\ currentUrl = route]_vars
    /\ [](pc \in ExtractPcs => currentUrl = Normalize(route))

\* the entry page is read without a second load
C21_Witness ==
    /\ pc = "title"
    /\ idx = 1
    /\ currentUrl = entryUrl
    /\ entryDoc # NotLoaded
    /\ navpc = "idle"

\* the candidates that exist on disk, by position in the list
Existing == {i \in 1..Len(candidates) : candidates[i] \in disk}

\* C22: when the environment override is set the resolved path is the
\* override; otherwise it is the first candidate of the list that exists on
\* disk, and the first candidate of the list when none exists.
C22_ExistingCandidatePreferred ==
    chromePath # NoResult =>
        IF Truthy(env) THEN chromePath.path = env.value
        ELSE IF Existing = {} THEN chromePath.path = candidates[1]
        ELSE \E i \in Existing :
                /\ chromePath.path = candidates[i]
                /\ \A j \in Existing : i <= j

GenIdx == 1..Len(genLog)
MandatoryStages == {"cache", "scrape", "prd", "stories"}
Entered(stage) == \E i \in GenIdx : genLog[i].stage = stage
SucceededBefore(i, stages) ==
    \E j \in 1..(i - 1) : genLog[j].stage \in stages /\ genLog[j].ok

\* C23: PRD generation is entered only after the scrape or the cache load
\* succeeded, story generation only after PRD generation succeeded, the Jira
\* push and code generation only after story generation succeeded; a failed
\* scrape, cache load, PRD or story generation is the last stage entered and
\* ends the run with exit code 1, and nothing else does; a run that gets past
\* story generation enters code generation unless --skip-code was given,
\* whether the Jira push was skipped, succeeded or failed, and ends with
\* exit code 0.
C23_StagesInOrder ==
    /\ \A i \in GenIdx :
          /\ genLog[i].stage = "cache" => opts.skipScrape
          /\ genLog[i].stage = "scrape" => ~opts.skipScrape
          /\ genLog[i].stage = "prd" => SucceededBefore(i, {"cache", "scrape"})
          /\ genLog[i].stage = "stories" => SucceededBefore(i, {"prd"})
          /\ genLog[i].stage \in {"jira", "code"} => SucceededBefore(i, {"stories"})
          /\ genLog[i].stage = "jira" => ~opts.skipJira /\ config.jiraValid
          /\ genLog[i].stage \in MandatoryStages /\ ~genLog[i].ok =>
                i = Len(genLog) /\ gpc = "exited" /\ exitCode = 1
    /\ exitCode = 1 =>
          /\ genLog # <<>>
          /\ genLog[Len(genLog)].stage \in MandatoryStages
          /\ ~genLog[Len(genLog)].ok
    /\ gpc = "summary" \/ exitCode = 0 =>
          /\ Entered("code") <=> ~opts.skipCode
          /\ Entered("jira") <=> ~opts.skipJira /\ config.jiraValid
          /\ \A i \in GenIdx : genLog[i].stage \in MandatoryStages => genLog[i].ok
    /\ exitCode # Running <=> gpc = "exited"

\* the Jira push failed, code generation ran, the run ended with code 0
C23_Witness ==
    /\ exitCode = 0
    /\ \E i \in GenIdx :
          /\ genLog[i] = Attempt("jira", JiraCalls, 1)
          /\ i < Len(genLog)
          /\ genLog[i + 1] = Attempt("code", CodeCalls, 2)

\* the items of the argument, every epic before its stories and every story
\* before its subtasks, in the order of the argument
RECURSIVE StoriesFrom(_, _, _)
StoriesFrom(ep, e, s) ==
    IF s > Len(ep[e].stories) THEN <<>>
    ELSE <<<<e, s>>>>
           \o [t \in 1..Len(ep[e].stories[s].subtasks) |-> <<e, s, t>>]
           \o StoriesFrom(ep, e, s + 1)
RECURSIVE EpicsFrom(_, _)
EpicsFrom(ep, e) ==
    IF e > Len(ep) THEN <<>>
    ELSE <<<<e>>>> \o StoriesFrom(ep, e, 1) \o EpicsFrom(ep, e + 1)
PreOrder(ep) == EpicsFrom(ep, 1)

JiraIdx == 1..Len(jira)
Summaries == [i \in JiraIdx |-> jira[i].summary]
IsPrefix(a, b) == Len(a) <= Len(b) /\ SubSeq(b, 1, Len(a)) = a
IssueTypeAt(depth) == <<"Epic", "Story", "Sub-task">>[depth]
KeysOf(issuetype) ==
    LET sel == SelectSeq(jira, LAMBDA x : x.issuetype = issuetype)
    IN  [i \in 1..Len(sel) |-> sel[i].key]
JiraEnded == jpc \in {"returned", "raised"}

\* C24: no issue exists before field discovery has completed; the issues
\* the site holds stand for an initial part of the items of the argument
\* taken parent first, one issue each, an epic without parent, a story with
\* the key of the issue of its epic as parent, a subtask with the key of the
\* issue of its story; when the call returns every item has its issue and
\* the result lists their keys by type; a request that fails ends the call,
\* after which nothing is created, and no step ever removes an issue.
C24_ParentFirst ==
    /\ [](/\ jira # <<>> => fieldIds.discovered
          /\ IsPrefix(Summaries, PreOrder(epics))
          /\ \A i \in JiraIdx :
                /\ jira[i].issuetype = IssueTypeAt(Len(jira[i].summary))
                /\ IF Len(jira[i].summary) = 1 THEN jira[i].parent = NoParent
                   ELSE \E j \in 1..(i - 1) :
                           /\ jira[j].summary =
                                 SubSeq(jira[i].summary, 1, Len(jira[i].summary) - 1)
                           /\ jira[i].parent = jira[j].key
          /\ jpc = "returned" =>
                /\ Summaries = PreOrder(epics)
                /\ jresult.epics = KeysOf("Epic")
                /\ jresult.stories = KeysOf("Story")
                /\ jresult.subtasks = KeysOf("Sub-task"))
    /\ [][/\ ~JiraEnded
          /\ IsPrefix(jira, jira')
          /\ jpc' = "raised" =>
                /\ jpc \in {"initialize", "createEpic", "createStory", "createSubtask"}
                /\ jresult' = jresult]_vars

\* the request for the second subtask of a story failed: the call ended and
\* the epic, the story and the first subtask stay on the site
C24_Witness ==
    /\ jpc = "raised"
    /\ Len(jira) = 3
    /\ jira[3].issuetype = "Sub-task"
    /\ jira[3].parent = jira[2].key
    /\ jira[2].parent = jira[1].key
    /\ Len(PreOrder(epics)) = 4
    /\ Len(jresult.subtasks) = 1

FileIdx == 1..Len(project.files)
Returned == project # NoResult /\ ~project.raised
ScaffoldPaths == {scaffoldFiles[i].path : i \in 1..Len(scaffoldFiles)}

\* C25: after writeGeneratedProject has returned, every scaffold path occurs
\* in the returned file list; every file of the generator is in the list
\* with its content and the file written at its path holds content of the
\* generator, not of the scaffold; for an input that is not JSON the list is
\* src/App.vue with the raw input followed by all scaffold files.
C25_ScaffoldNeverReplaces ==
    Returned =>
        /\ \A p \in ScaffoldPaths : \E i \in FileIdx : project.files[i].path = p
        /\ \A i \in FileIdx :
              project.files[i].content = "scaffold" =>
                  \A j \in 1..Len(ParsedFiles(filesJson)) :
                      ParsedFiles(filesJson)[j].path # project.files[i].path
        /\ \A j \in 1..Len(ParsedFiles(filesJson)) :
              /\ project.files[j] = ParsedFiles(filesJson)[j]
              /\ codeDir[FullPath(ParsedFiles(filesJson)[j].path)] # "scaffold"
        /\ filesJson.json = "invalid" =>
              project.files =
                  <<[path |-> <<"src", "App.vue">>, content |-> filesJson.raw,
                     description |-> "Generated application code"]>>
                    \o scaffoldFiles

====
